---- MODULE Spec2Model ----
(***************************************************************************)
(* Model of cdigraphlayout/cdigraphlayoutcmd.py: the command that reads a  *)
(* CX network, runs an igraph layout on it, scales it or fits it into a    *)
(* bounding box, and writes the coordinates as a JSON array.               *)
(*                                                                         *)
(* Numbers.  Python floats are modelled in fixed point with one decimal    *)
(* digit: the integer v stands for the float v / 10 (Scale = 10).          *)
(* Strings.  A Python str is the sequence of its characters, each a        *)
(* one-character TLA+ string; a message is a sequence of text pieces.      *)
(* Optional values.  Python None is the empty sequence, a present value v  *)
(* is the one-element sequence <<v>>.                                      *)
(***************************************************************************)
EXTENDS Integers, Sequences, FiniteSets, TLC

None == <<>>
Some(v) == <<v>>

Scale == 2 * 5

\* ---------------------------------------------------------------- bounds
MaxNodes == 3
LargeNodeCount == 54
LayoutSeeds == 2

\* ------------------------------------------------------- program constants
DEFAULT_BOX_SIZE == 550 * Scale
DEFAULT_NODE_SIZE == 75 * Scale
CY_VISUAL_PROPERTIES_ASPECT == "cyVisualProperties"

\* ------------------------------------------------------------ characters
DigitChars == <<"0", "1", "2", "3", "4", "5", "6", "7", "8", "9">>
DigitSet == {DigitChars[i] : i \in 1..10}
DigitVal(c) == (CHOOSE i \in 1..10 : DigitChars[i] = c) - 1
\* \w of the re module: letters, digits and the underscore
WordChars == DigitSet \cup {"a", "b", "c", "d", "_"}
IsWordChar(c) == c \in WordChars
WhiteSpace == {" "}

\* ------------------------------------------------ re.split('\W*,\W*', s)
\* the position after the longest run of \W characters that starts at i
RECURSIVE RunEnd(_, _)
RunEnd(s, i) ==
    IF i > Len(s) \/ IsWordChar(s[i]) THEN i ELSE RunEnd(s, i + 1)

\* the end (exclusive) of the match of \W*,\W* that starts at i, 0 if none:
\* the greedy \W* backs up to the last comma of the run, and the second
\* \W* then takes the rest of the run
SepMatchEnd(s, i) ==
    LET e == RunEnd(s, i)
    IN  IF \E k \in i..(e - 1) : s[k] = "," THEN e ELSE 0

\* re.split: the leftmost match from each position, the pieces between
RECURSIVE SplitFrom(_, _, _)
SplitFrom(s, start, i) ==
    IF i > Len(s) THEN <<SubSeq(s, start, Len(s))>>
    ELSE IF SepMatchEnd(s, i) # 0
         THEN <<SubSeq(s, start, i - 1)>>
                  \o SplitFrom(s, SepMatchEnd(s, i), SepMatchEnd(s, i))
         ELSE SplitFrom(s, start, i + 1)

re_split(s) == SplitFrom(s, 1, 1)

\* ------------------------------------------------------------- float(str)
RECURSIVE LStrip(_)
LStrip(t) ==
    IF Len(t) > 0 /\ t[1] \in WhiteSpace THEN LStrip(Tail(t)) ELSE t

RECURSIVE RStrip(_)
RStrip(t) ==
    IF Len(t) > 0 /\ t[Len(t)] \in WhiteSpace
    THEN RStrip(SubSeq(t, 1, Len(t) - 1)) ELSE t

Strip(t) == RStrip(LStrip(t))

HasSign(t) == Len(t) > 0 /\ t[1] \in {"-", "+"}
Unsigned(t) == IF HasSign(t) THEN Tail(t) ELSE t
SignOf(t) == IF Len(t) > 0 /\ t[1] = "-" THEN -1 ELSE 1

\* float() accepts: [sign] digits [. [digits]] or [sign] . digits, with
\* whitespace around it (exponents, inf and nan need letters that the
\* strings of this model do not hold).  A single underscore may stand
\* between two digits (PEP 515) and does not count for the value.
UnderscoresGrouped(b) ==
    \A i \in 1..Len(b) :
        b[i] = "_" => /\ i > 1 /\ b[i - 1] \in DigitSet
                      /\ i < Len(b) /\ b[i + 1] \in DigitSet

RECURSIVE DropUnderscores(_)
DropUnderscores(b) ==
    IF Len(b) = 0 THEN <<>>
    ELSE IF b[1] = "_" THEN DropUnderscores(Tail(b))
    ELSE <<b[1]>> \o DropUnderscores(Tail(b))

IsFloatStr(t) ==
    LET u == Unsigned(Strip(t))
        b == DropUnderscores(u)
    IN  /\ UnderscoresGrouped(u)
        /\ Len(b) > 0
        /\ \A i \in 1..Len(b) : b[i] \in DigitSet \cup {"."}
        /\ Cardinality({i \in 1..Len(b) : b[i] = "."}) <= 1
        /\ \E i \in 1..Len(b) : b[i] \in DigitSet

RECURSIVE DigitsValue(_)
DigitsValue(d) ==
    IF Len(d) = 0 THEN 0
    ELSE 10 * DigitsValue(SubSeq(d, 1, Len(d) - 1)) + DigitVal(d[Len(d)])

\* the value of a float literal, in units of 1/Scale (digits after the
\* first decimal are below the resolution of the model)
FloatOf(t) ==
    LET b == DropUnderscores(Unsigned(Strip(t)))
        dots == {i \in 1..Len(b) : b[i] = "."}
        p == IF dots = {} THEN Len(b) + 1 ELSE CHOOSE i \in dots : TRUE
        whole == DigitsValue(SubSeq(b, 1, p - 1))
        tenth == IF p + 1 <= Len(b) THEN DigitVal(b[p + 1]) ELSE 0
    IN  SignOf(Strip(t)) * (whole * Scale + tenth)

\* ------------------------------------------------------------- exceptions
\* the result of a call: a value, or a raised exception with its message
Return(v) == [raised |-> FALSE, val |-> Some(v), msg |-> <<>>]
Raise(m) == [raised |-> TRUE, val |-> None, msg |-> m]

\* --------------------------------- igraph.drawing.utils.BoundingBox(...)
\* Rectangle.coords setter: swaps the corners so that left <= right and
\* top <= bottom
Rectangle(l, t, r, b) ==
    [left   |-> IF l > r THEN r ELSE l,
     top    |-> IF t > b THEN b ELSE t,
     right  |-> IF l > r THEN l ELSE r,
     bottom |-> IF t > b THEN t ELSE b]

InvalidCoordinateMsg == <<"invalid coordinate format, numbers expected">>

\* Rectangle.__init__ with four arguments: float() of each, a ValueError
\* when one of them is no number
BoundingBox(args) ==
    IF \A i \in 1..4 : IsFloatStr(args[i])
    THEN Return(Rectangle(FloatOf(args[1]), FloatOf(args[2]),
                          FloatOf(args[3]), FloatOf(args[4])))
    ELSE Raise(InvalidCoordinateMsg)

\* ---------------------------------------- _get_bounding_box_from_user_str
CouldNotParseMsg(inputstr) ==
    <<"Could not parse bounding box coordinates from input string: ">>
        \o inputstr

\* the resolver with a message that leaves the input string out
get_bounding_box_from_user_str_Anon(inputstr) ==
    IF inputstr = None THEN Return(None)
    ELSE LET split_input == re_split(inputstr[1])
             box == BoundingBox(split_input)
         IN  IF Len(split_input) # 4
             THEN Raise(<<"Could not parse bounding box coordinates">>)
             ELSE IF box.raised THEN box ELSE Return(box.val)

\* inputstr is None or Some(str); the value returned is None or Some(box)
get_bounding_box_from_user_str(inputstr) ==
    IF inputstr = None THEN Return(None)
    ELSE LET split_input == re_split(inputstr[1])
             box == BoundingBox(split_input)
         IN  IF Len(split_input) # 4
             THEN Raise(CouldNotParseMsg(inputstr[1]))
             ELSE IF box.raised THEN box ELSE Return(box.val)

\* ---------------------------------------------------------------- max()
Max2(a, b) == IF b > a THEN b ELSE a
Max3(a, b, c) == Max2(Max2(a, b), c)

\* math.sqrt on the fixed-point scale: for x in units of 1/Scale^2 the
\* largest r, in units of 1/Scale, with r * r <= x
RECURSIVE SqrtBisect(_, _, _)
SqrtBisect(x, lo, hi) ==
    IF hi - lo <= 1 THEN lo
    ELSE LET mid == (lo + hi) \div 2
         IN  IF mid * mid <= x THEN SqrtBisect(x, mid, hi)
                               ELSE SqrtBisect(x, lo, mid)

math_sqrt(x) == SqrtBisect(x, 0, 46341)

\* -------------------------------- _get_node_size_from_cyvisual_properties
NODE_PROPS == <<"NODE_WIDTH", "NODE_HEIGHT", "NODE_SIZE">>

KeyErrorMsg(k) == <<"'", k, "'">>
FloatErrorMsg(t) == <<"could not convert string to float: '">> \o t \o <<"'">>

\* the entries the loop visits before it returns: the index of the first
\* entry whose properties_of is 'nodes:default', 0 if there is none
FirstDefaultEntry(v_props) ==
    LET hits == {i \in 1..Len(v_props) :
                    v_props[i].properties_of = "nodes:default"}
    IN  IF hits = {} THEN 0
        ELSE CHOOSE i \in hits : \A j \in hits : i <= j

\* the estimator's maximum without NODE_SIZE
NodeSizeOfEntry_NoSize(props) ==
    LET bad == {i \in 1..3 : \/ NODE_PROPS[i] \notin DOMAIN props
                             \/ ~IsFloatStr(props[NODE_PROPS[i]])}
    IN  IF bad = {}
        THEN Return(Some(Max2(FloatOf(props["NODE_WIDTH"]),
                              FloatOf(props["NODE_HEIGHT"]))))
        ELSE Raise(<<"KeyError or ValueError">>)

\* max(float(p[NODE_WIDTH]), float(p[NODE_HEIGHT]), float(p[NODE_SIZE])):
\* the arguments are evaluated left to right, the first failure raises
NodeSizeOfEntry(props) ==
    LET bad == {i \in 1..3 : \/ NODE_PROPS[i] \notin DOMAIN props
                             \/ ~IsFloatStr(props[NODE_PROPS[i]])}
        b == CHOOSE i \in bad : \A j \in bad : i <= j
    IN  IF bad = {}
        THEN Return(Some(Max3(FloatOf(props["NODE_WIDTH"]),
                              FloatOf(props["NODE_HEIGHT"]),
                              FloatOf(props["NODE_SIZE"]))))
        ELSE IF NODE_PROPS[b] \notin DOMAIN props
             THEN Raise(KeyErrorMsg(NODE_PROPS[b]))
             ELSE Raise(FloatErrorMsg(props[NODE_PROPS[b]]))

NetworkIsNoneMsg == <<"Network passed in cannot be None">>

\* net_cx is None or Some(network); returns None (not found), Some(size),
\* or raises
get_node_size_from_cyvisual_properties(net_cx) ==
    IF net_cx = None THEN Raise(NetworkIsNoneMsg)
    ELSE LET v_props == net_cx[1].opaque[CY_VISUAL_PROPERTIES_ASPECT]
         IN  IF v_props = None THEN Return(None)
             ELSE IF FirstDefaultEntry(v_props[1]) = 0 THEN Return(None)
             ELSE NodeSizeOfEntry(
                      v_props[1][FirstDefaultEntry(v_props[1])].properties)

\* ----------------------------------- _get_bounding_box_based_on_node_size
\* the side without squaring the node size
BoxSide_NoSquare(n_size, num_nodes) ==
    Max2(DEFAULT_BOX_SIZE, math_sqrt(n_size * num_nodes * Scale))

BoxSide(n_size, num_nodes) ==
    Max2(DEFAULT_BOX_SIZE, math_sqrt(n_size * n_size * num_nodes))

\* net_cx is None or Some(network)
get_bounding_box_based_on_node_size(net_cx) ==
    IF net_cx = None THEN Raise(NetworkIsNoneMsg)
    ELSE LET num_nodes == Len(net_cx[1].nodes)
             found == get_node_size_from_cyvisual_properties(net_cx)
             n_size == IF found.val[1] = None THEN DEFAULT_NODE_SIZE
                                              ELSE found.val[1][1]
             thesize == BoxSide(n_size, num_nodes)
         IN  IF found.raised THEN Raise(found.msg)
             ELSE Return(Rectangle(0, 0, thesize, thesize))

\* ------------------------------------------------- igraph.Layout methods
\* Layout.scale(k): every coordinate times k
layout_scale(coords, k) ==
    [i \in 1..Len(coords) |->
        <<(coords[i][1] * k) \div Scale, (coords[i][2] * k) \div Scale>>]

\* Layout.boundaries(): the smallest and largest coordinate of dimension d,
\* zeros for a layout without points
MinCoord(coords, d) ==
    IF Len(coords) = 0 THEN 0
    ELSE CHOOSE m \in {coords[i][d] : i \in 1..Len(coords)} :
             \A i \in 1..Len(coords) : m <= coords[i][d]
MaxCoord(coords, d) ==
    IF Len(coords) = 0 THEN 0
    ELSE CHOOSE m \in {coords[i][d] : i \in 1..Len(coords)} :
             \A i \in 1..Len(coords) : m >= coords[i][d]

\* Layout.fit_into(bbox, keep_aspect_ratio=True): a dimension of extent 0
\* is widened by 1 on both sides; both dimensions are scaled by the smaller
\* of the ratios target/size, and the result is centred in the box.  The
\* ratio is kept as the fraction num/den, one division per coordinate.
FitSize(coords, d) ==
    IF MaxCoord(coords, d) = MinCoord(coords, d) THEN 2 * Scale
    ELSE MaxCoord(coords, d) - MinCoord(coords, d)
FitMin(coords, d) ==
    IF MaxCoord(coords, d) = MinCoord(coords, d)
    THEN MinCoord(coords, d) - Scale ELSE MinCoord(coords, d)

layout_fit_into(coords, bbox) ==
    LET corner == <<bbox.left, bbox.top>>
        target == <<bbox.right - bbox.left, bbox.bottom - bbox.top>>
        size == <<FitSize(coords, 1), FitSize(coords, 2)>>
        mins == <<FitMin(coords, 1), FitMin(coords, 2)>>
        first == target[1] * size[2] <= target[2] * size[1]
        num == IF first THEN target[1] ELSE target[2]
        den == IF first THEN size[1] ELSE size[2]
        fit(v, d) == corner[d]
                       + (target[d] * den - num * size[d]
                            + 2 * (v - mins[d]) * num) \div (2 * den)
    IN  [i \in 1..Len(coords) |-> <<fit(coords[i][1], 1), fit(coords[i][2], 2)>>]

\* --------------------------------------------------------- _parse_arguments
LAYOUT_CHOICES == {"auto", "circle", "drl", "fr", "kk", "lgl", "random",
                   "rt", "rt_circular"}

\* argparse's _negative_number_matcher, '^-\d+$|^-\d*\.\d+$'
IsNegativeNumber(v) ==
    /\ Len(v) >= 2
    /\ v[1] = "-"
    /\ \A i \in 2..Len(v) : v[i] \in DigitSet \cup {"."}
    /\ Cardinality({i \in 2..Len(v) : v[i] = "."}) <= 1
    /\ v[Len(v)] \in DigitSet

\* argparse's _parse_optional on an argument of its own: one that starts
\* with '-' is taken for an option, unless it is '-' alone, looks like a
\* negative number or holds a blank (the strings of this model hold no
\* '=' and are no prefix of an option of the parser)
LooksLikeOption(v) ==
    /\ Len(v) > 1
    /\ v[1] = "-"
    /\ ~IsNegativeNumber(v)
    /\ \A i \in 1..Len(v) : v[i] # " "

\* the option gets its value: always when written --option=value, and when
\* written --option value unless the value is taken for an option itself
\* ("expected one argument")
ValueTaken(args, v) == args.eq \/ ~LooksLikeOption(v)

\* the parser without the mutually exclusive group
ArgsAccepted_NoGroup(args) ==
    /\ args.layout \in {"auto", "circle", "drl", "fr", "kk", "lgl", "random",
                        "rt", "rt_circular"}
    /\ args.scale # None => /\ ValueTaken(args, args.scale[1])
                            /\ IsFloatStr(args.scale[1])
    /\ args.fit_into # None => ValueTaken(args, args.fit_into[1])

\* argparse: the choices of --layout, one argument for --scale and for
\* --fit_into, type=float of --scale and the mutually exclusive group of
\* --scale and --fit_into; an error ends in SystemExit(2)
ArgsAccepted(args) ==
    /\ args.layout \in LAYOUT_CHOICES
    /\ args.scale # None => /\ ValueTaken(args, args.scale[1])
                            /\ IsFloatStr(args.scale[1])
    /\ args.fit_into # None => ValueTaken(args, args.fit_into[1])
    /\ ~(args.scale # None /\ args.fit_into # None)

parse_arguments(args) ==
    [input    |-> args.input,
     layout   |-> args.layout,
     scale    |-> IF args.scale = None THEN None
                  ELSE Some(FloatOf(args.scale[1])),
     fit_into |-> args.fit_into]

\* ------------------------------------------------------------------ inputs
\* the text of a token list joined by a separator
RECURSIVE Join(_, _)
Join(toks, sep) ==
    IF Len(toks) = 0 THEN <<>>
    ELSE IF Len(toks) = 1 THEN toks[1]
    ELSE toks[1] \o sep \o Join(Tail(toks), sep)

Tokens == {<<"0">>, <<"-", "5">>, <<"2", ".", "5">>, <<"b">>}
Separators == {<<",">>, <<" ", ",", " ">>}

\* values of --fit_into: four tokens in every combination, three tokens,
\* and strings with empty tokens, doubled commas and stray blanks
FitIntoStrs ==
    {Join(t, sep) : t \in [1..4 -> Tokens], sep \in Separators}
      \cup {Join(t, <<",">>) : t \in [1..3 -> Tokens]}
      \cup {<<>>,
            <<"1", ",", "2">>,
            <<"1", ",", "b", ",", "c", ",", "d">>,
            <<"0", ".", "0", ",", "1", ".", "0", ",", "2", ",", "3">>,
            <<"0", ",", ",", "0", ",", "5", ",", "5">>,
            <<"0", ",", "0", ",", "5", ",", "5", ",">>,
            <<" ", "0", ",", "0", ",", "5", ",", "5", " ">>,
            <<"0", ",", "0", ",", "5", ",", ".", "5">>,
            <<"0", ",", "0", ",", "5", ".", ",", "5">>,
            <<"0", ",", "0", ",", "5", " ", "5", ",", "5">>,
            <<"1", "_", "0", ",", "0", ",", "2", "_", "0", ",", "5">>,
            <<"1", "_", ",", "0", ",", "5", ",", "5">>}

\* values of --scale
ScaleStrs == {<<"1", "0", ".", "0">>, <<"0", ".", "5">>, <<"-", "2">>,
              <<"0">>, <<"b">>, <<"1", "_", "0">>, <<"-", "5", ".">>}

LayoutNames == {"auto", "circle", "bogus"}

\* the command lines: at most one of --scale and --fit_into, and both;
\* eq tells whether the options are written --option=value or
\* --option value
Requests ==
    {[input |-> "input.cx", layout |-> l, scale |-> sc, fit_into |-> f,
      eq |-> e] :
        l \in LayoutNames,
        sc \in {None} \cup {Some(x) : x \in ScaleStrs},
        f \in {None},
        e \in BOOLEAN}
      \cup
    {[input |-> "input.cx", layout |-> "auto", scale |-> sc, fit_into |-> f,
      eq |-> e] :
        sc \in {None, Some(<<"1", "0", ".", "0">>)},
        f \in {Some(x) : x \in FitIntoStrs},
        e \in BOOLEAN}

\* the node identifiers of a CX file with n nodes (175, 180, ... as in
\* tests/data/5node.cx)
NodeIds(n) == [i \in 1..n |-> 170 + 5 * i]

Entry(of, props) == [properties_of |-> of, properties |-> props]
Props(w, h, s) == [NODE_WIDTH |-> w, NODE_HEIGHT |-> h, NODE_SIZE |-> s]
S35 == <<"3", "5", ".", "0">>
S85 == <<"8", "5", ".", "0">>
S300 == <<"3", "0", "0">>
S9_0 == <<"9", "_", "0">>
NetworkEntry == Entry("network", [NETWORK_WIDTH |-> S300])
EdgeEntry == Entry("edges:default", [EDGE_WIDTH |-> <<"2", ".", "0">>])

\* the cyVisualProperties aspect of the input: absent, without a
\* nodes:default entry, with one (each field the largest in turn), with
\* two, with an entry that lacks a field or holds no number, and with a
\* number written with an underscore
VisualProperties ==
    {None,
     Some(<<NetworkEntry, EdgeEntry>>),
     Some(<<NetworkEntry, Entry("nodes:default", Props(S85, S35, S35)),
            EdgeEntry>>),
     Some(<<Entry("nodes:default", Props(S35, S300, S85))>>),
     Some(<<EdgeEntry, Entry("nodes:default", Props(S35, S85, S300)),
            Entry("nodes:default", Props(S35, S35, S35))>>),
     Some(<<Entry("nodes:default", [NODE_WIDTH |-> S85, NODE_SIZE |-> S35])>>),
     Some(<<Entry("nodes:default", Props(S85, <<"b">>, S35))>>),
     Some(<<Entry("nodes:default", Props(S35, S9_0, S85))>>)}

NodeCounts == (1..MaxNodes) \cup {LargeNodeCount}

Networks ==
    {[nodes |-> NodeIds(n),
      opaque |-> [cyVisualProperties |-> vp]] :
        n \in NodeCounts, vp \in VisualProperties}

\* what the input path names: nothing, an empty file, a file that is no
\* CX document, or a CX file holding a network
Files ==
    {[isfile |-> FALSE, size |-> 0, cx |-> None],
     [isfile |-> TRUE, size |-> 0, cx |-> None],
     [isfile |-> TRUE, size |-> 1, cx |-> None]}
      \cup {[isfile |-> TRUE, size |-> 1, cx |-> Some(n)] : n \in Networks}

\* the coordinates a layout algorithm gives vertex i: whole numbers, with
\* negative ones, repeated ones and (for one vertex) a single point
RawCoord(seed, i) ==
    <<(((i * (seed + 6)) % 5) - 2 * (seed % 2)) * Scale,
      (((i * 3 * seed) % 7) - 1) * Scale>>
RawLayout(seed, n) == [i \in 1..n |-> RawCoord(seed, i)]

\* ------------------------------------------------------------------- state
VARIABLES
    argv,         \* the command line of this invocation
    file,         \* what the input path names
    pc,           \* the statement main / run_layout is at
    theargs,      \* the Namespace _parse_arguments returned
    net,          \* run_layout: net
    bbox,         \* run_layout: bbox
    g,            \* run_layout: g, as the _nx_name of g.vs
    layout,       \* run_layout: layout.coords
    new_layout,   \* run_layout: new_layout
    out_stream,   \* what was written to out_stream
    err_stream,   \* what was written to err_stream
    out_flushed,  \* out_stream.flush() was called
    err_flushed,  \* err_stream.flush() was called
    exc,          \* the exception in flight
    ret,          \* the value of the return statement that is under way
    rc,           \* the value run_layout returned
    status,       \* how main ended
    n_size,       \* history: what the node size estimator returned
    raw,          \* history: layout.coords as g.layout returned them
    calls,        \* history: the calls made on the way, in order
    raised,       \* history: the messages of the exceptions raised
    escaped       \* the exception that left run_layout for main

vars == <<argv, file, pc, theargs, net, bbox, g, layout, new_layout,
          out_stream, err_stream, out_flushed, err_flushed, exc, ret,
          rc, status, n_size, raw, calls, raised, escaped>>

Init ==
    /\ argv \in Requests
    /\ file \in Files
    /\ pc = "main"
    /\ theargs = None
    /\ net = None
    /\ bbox = None
    /\ g = None
    /\ layout = None
    /\ new_layout = None
    /\ out_stream = <<>>
    /\ err_stream = <<>>
    /\ out_flushed = FALSE
    /\ err_flushed = FALSE
    /\ exc = None
    /\ ret = None
    /\ rc = None
    /\ status = None
    /\ n_size = None
    /\ raw = None
    /\ calls = <<>>
    /\ raised = <<>>
    /\ escaped = None

\* ------------------------------------------------------------------- main
\* parser.error(): the usage and the error message, written to sys.stderr
ArgparseErrorMsg == <<"usage: ", "error: ">>

\* main with _parse_arguments inside the try, and a handler that catches
\* what argparse raises
MainParseArguments_InsideTry ==
    /\ pc = "main"
    /\ IF ArgsAccepted(argv)
       THEN /\ theargs' = Some(parse_arguments(argv))
            /\ pc' = "isfile"
            /\ UNCHANGED <<err_stream, escaped>>
       ELSE /\ theargs' = theargs
            /\ pc' = "main_except"
            /\ err_stream' = Append(err_stream, ArgparseErrorMsg)
            /\ escaped' = Some(<<"2">>)
    /\ UNCHANGED <<argv, file, net, bbox, g, layout, new_layout, out_stream,
                   out_flushed, err_flushed, exc, ret, rc, status,
                   n_size, raw, calls, raised>>

\* main: theargs = _parse_arguments(desc, args[1:]), before the try: an
\* argparse error writes its message and raises SystemExit(2), which leaves
\* main
MainParseArguments ==
    /\ pc = "main"
    /\ IF ArgsAccepted(argv)
       THEN /\ theargs' = Some(parse_arguments(argv))
            /\ pc' = "isfile"
            /\ UNCHANGED <<err_stream, status>>
       ELSE /\ theargs' = theargs
            /\ pc' = "exit"
            /\ err_stream' = Append(err_stream, ArgparseErrorMsg)
            /\ status' = Some([kind |-> "SystemExit", code |-> 2])
    /\ UNCHANGED <<escaped, argv, file, net, bbox, g, layout, new_layout,
                   out_stream, out_flushed, err_flushed, exc, ret, rc,
                   n_size, raw, calls, raised>>

\* main: except Exception as e: the message and the trace to sys.stderr,
\* return 2
CaughtMsg(e) == <<"\n\nCaught exception: ">> \o e
TraceMsg(e) == <<"Traceback (most recent call last):">> \o e

MainExcept ==
    /\ pc = "main_except"
    /\ err_stream' = err_stream \o <<CaughtMsg(escaped[1]), TraceMsg(escaped[1])>>
    /\ status' = Some([kind |-> "return", code |-> 2])
    /\ pc' = "exit"
    /\ UNCHANGED <<escaped, argv, file, theargs, net, bbox, g, layout,
                   new_layout, out_stream, out_flushed, err_flushed, exc,
                   ret, rc, n_size, raw, calls, raised>>

\* main: return run_layout(theargs, sys.stdout, sys.stderr)
MainReturn ==
    /\ pc = "returned"
    /\ status' = Some([kind |-> "return", code |-> rc[1]])
    /\ pc' = "exit"
    /\ UNCHANGED <<escaped, argv, file, theargs, net, bbox, g, layout, new_layout,
                   out_stream, err_stream, out_flushed, err_flushed, exc,
                   ret, rc, n_size, raw, calls,
                   raised>>

\* ------------------------------------------------------------- run_layout
\* if theargs.input is None or not os.path.isfile(theargs.input)
CheckIsFile ==
    /\ pc = "isfile"
    /\ IF ~file.isfile
       THEN /\ err_stream' = Append(err_stream,
                                    <<theargs[1].input, " is not a file">>)
            /\ rc' = Some(3)
            /\ pc' = "returned"
       ELSE /\ pc' = "getsize"
            /\ UNCHANGED <<err_stream, rc>>
    /\ UNCHANGED <<escaped, argv, file, theargs, net, bbox, g, layout, new_layout,
                   out_stream, out_flushed, err_flushed, exc, ret, status,
                   n_size, raw, calls,
                   raised>>

\* run_layout without the check for an empty file
CheckEmptyFile_NoCheck ==
    /\ pc = "getsize"
    /\ pc' = "create_nice_cx"
    /\ UNCHANGED <<escaped, argv, file, theargs, net, bbox, g, layout, new_layout,
                   out_stream, err_stream, out_flushed, err_flushed, exc,
                   ret, rc, status, n_size, raw, calls, raised>>

\* if os.path.getsize(theargs.input) == 0
CheckEmptyFile ==
    /\ pc = "getsize"
    /\ IF file.size = 0
       THEN /\ err_stream' = Append(err_stream,
                                    <<theargs[1].input, " is an empty file">>)
            /\ rc' = Some(4)
            /\ pc' = "returned"
       ELSE /\ pc' = "create_nice_cx"
            /\ UNCHANGED <<err_stream, rc>>
    /\ UNCHANGED <<escaped, argv, file, theargs, net, bbox, g, layout, new_layout,
                   out_stream, out_flushed, err_flushed, exc, ret, status,
                   n_size, raw, calls,
                   raised>>

\* os.path.getsize(theargs.input) raises OSError (the file went away after
\* the isfile check): outside the try, so the exception leaves run_layout
GetSizeOSError ==
    /\ pc = "getsize"
    /\ escaped' = Some(<<"[Errno 2] No such file or directory: '",
                         theargs[1].input, "'">>)
    /\ pc' = "main_except"
    /\ UNCHANGED <<argv, file, theargs, net, bbox, g, layout, new_layout,
                   out_stream, err_stream, out_flushed, err_flushed, exc,
                   ret, rc, status, n_size, raw, calls, raised>>

\* net = ndex2.create_nice_cx_from_file(theargs.input): the network of the
\* file, or the parser's exception
CreateNiceCx ==
    /\ pc = "create_nice_cx"
    /\ calls' = Append(calls, "create_nice_cx_from_file")
    /\ IF file.cx = None
       THEN /\ exc' = Some(<<"cannot parse ", theargs[1].input>>)
            /\ raised' = Append(raised, <<"cannot parse ", theargs[1].input>>)
            /\ pc' = "except"
            /\ net' = net
       ELSE /\ net' = file.cx
            /\ pc' = "bbox"
            /\ UNCHANGED <<exc, raised>>
    /\ UNCHANGED <<escaped, argv, file, theargs, bbox, g, layout, new_layout,
                   out_stream, err_stream, out_flushed, err_flushed, ret,
                   rc, status, n_size, raw>>

\* bbox = None, then the derived box when neither option is set, the box of
\* --fit_into when that is set, and no box otherwise
SelectBBox ==
    /\ pc = "bbox"
    /\ LET a == theargs[1]
           mode == IF a.scale = None /\ a.fit_into = None THEN "derived"
                   ELSE IF a.fit_into # None THEN "user" ELSE "none"
           box == IF mode = "derived"
                  THEN get_bounding_box_based_on_node_size(net)
                  ELSE IF mode = "user"
                  THEN get_bounding_box_from_user_str(a.fit_into)
                  ELSE Return(None)
       IN  /\ calls' = IF mode = "derived"
                       THEN calls \o <<"_get_bounding_box_based_on_node_size",
                                       "_get_node_size_from_cyvisual_properties">>
                       ELSE IF mode = "user"
                       THEN Append(calls, "_get_bounding_box_from_user_str")
                       ELSE calls
           /\ n_size' = IF mode = "derived"
                        THEN Some(get_node_size_from_cyvisual_properties(net))
                        ELSE n_size
           /\ IF box.raised
              THEN /\ exc' = Some(box.msg)
                   /\ raised' = Append(raised, box.msg)
                   /\ pc' = "except"
                   /\ bbox' = None
              ELSE /\ bbox' = IF mode = "derived" THEN Some(box.val[1])
                                                   ELSE box.val[1]
                   /\ pc' = "to_networkx"
                   /\ UNCHANGED <<exc, raised>>
    /\ UNCHANGED <<escaped, argv, file, theargs, net, g, layout, new_layout,
                   out_stream, err_stream, out_flushed, err_flushed, ret,
                   rc, status, raw>>

\* netx = net.to_networkx(mode='default'); del net;
\* g = igraph.Graph.from_networkx(netx): one vertex per node, _nx_name the
\* node's identifier, in the order of the network's nodes
ToIgraph ==
    /\ pc = "to_networkx"
    /\ g' = Some(net[1].nodes)
    /\ net' = None
    /\ calls' = calls \o <<"to_networkx", "from_networkx">>
    /\ pc' = "layout"
    /\ UNCHANGED <<escaped, argv, file, theargs, bbox, layout, new_layout, out_stream,
                   err_stream, out_flushed, err_flushed, exc, ret, rc,
                   status, n_size, raw,
                   raised>>

\* layout = g.layout(theargs.layout): one coordinate pair per vertex, or
\* the algorithm's exception
GLayout ==
    /\ pc = "layout"
    /\ calls' = Append(calls, "layout")
    /\ \/ \E seed \in 1..LayoutSeeds :
            /\ layout' = Some(RawLayout(seed, Len(g[1])))
            /\ raw' = Some(RawLayout(seed, Len(g[1])))
            /\ pc' = "transform"
            /\ UNCHANGED <<exc, raised>>
       \/ /\ exc' = Some(<<"layout ", theargs[1].layout, " failed">>)
          /\ raised' = Append(raised,
                              <<"layout ", theargs[1].layout, " failed">>)
          /\ pc' = "except"
          /\ UNCHANGED <<layout, raw>>
    /\ UNCHANGED <<escaped, argv, file, theargs, net, bbox, g, new_layout, out_stream,
                   err_stream, out_flushed, err_flushed, ret, rc, status,
                   n_size>>

\* if theargs.scale is not None: layout.scale(theargs.scale)
\* else: layout.fit_into(bbox)
Transform ==
    /\ pc = "transform"
    /\ IF theargs[1].scale # None
       THEN /\ layout' = Some(layout_scale(layout[1], theargs[1].scale[1]))
            /\ calls' = Append(calls, "scale")
       ELSE /\ layout' = Some(layout_fit_into(layout[1], bbox[1]))
            /\ calls' = Append(calls, "fit_into")
    /\ pc' = "new_layout"
    /\ UNCHANGED <<escaped, argv, file, theargs, net, bbox, g, new_layout, out_stream,
                   err_stream, out_flushed, err_flushed, exc, ret, rc,
                   status, n_size, raw,
                   raised>>

\* the record with y negated (the Cartesian flip the source leaves out)
NodeRecord_FlipY(vs, coords, x) ==
    [node |-> vs[x], x |-> coords[x][1], y |-> -coords[x][2]]

\* the record with the identifier of another vertex
NodeRecord_OtherNode(vs, coords, x) ==
    [node |-> vs[Len(vs) - x + 1], x |-> coords[x][1], y |-> coords[x][2]]

\* the record of vertex x: its _nx_name with layout.coords[x], y as it is
NodeRecord(vs, coords, x) ==
    [node |-> vs[x], x |-> coords[x][1], y |-> coords[x][2]]

\* for x in range(len(layout.coords)): new_layout.append({...})
BuildNewLayout ==
    /\ pc = "new_layout"
    /\ new_layout' = Some([x \in 1..Len(layout[1]) |->
                              NodeRecord(g[1], layout[1], x)])
    /\ pc' = "json_dump"
    /\ UNCHANGED <<escaped, argv, file, theargs, net, bbox, g, layout, out_stream,
                   err_stream, out_flushed, err_flushed, exc, ret, rc,
                   status, n_size, raw, calls,
                   raised>>

\* json.dump(new_layout, out_stream) and return 0; a failing dump has
\* written the opening of the array before it raises
JsonArray(items) == [json |-> "array", items |-> items]
JsonPartial == [json |-> "partial", items |-> <<>>]

JsonDump ==
    /\ pc = "json_dump"
    /\ calls' = Append(calls, "json.dump")
    /\ \/ /\ out_stream' = Append(out_stream, JsonArray(new_layout[1]))
          /\ ret' = Some(0)
          /\ pc' = "finally"
          /\ UNCHANGED <<exc, raised>>
       \/ /\ out_stream' = Append(out_stream, JsonPartial)
          /\ exc' = Some(<<"cannot serialize">>)
          /\ raised' = Append(raised, <<"cannot serialize">>)
          /\ pc' = "except"
          /\ ret' = ret
    /\ UNCHANGED <<escaped, argv, file, theargs, net, bbox, g, layout, new_layout,
                   err_stream, out_flushed, err_flushed, rc, status, n_size,
                   raw>>

\* the handler without the write to the error stream
Except_NoWrite ==
    /\ pc = "except"
    /\ exc' = None
    /\ ret' = Some(5)
    /\ pc' = "finally"
    /\ UNCHANGED <<escaped, argv, file, theargs, net, bbox, g, layout, new_layout,
                   out_stream, err_stream, out_flushed, err_flushed, rc,
                   status, n_size, raw, calls, raised>>

\* except Exception as e: err_stream.write(str(e)); return 5
Except ==
    /\ pc = "except"
    /\ err_stream' = Append(err_stream, exc[1])
    /\ exc' = None
    /\ ret' = Some(5)
    /\ pc' = "finally"
    /\ UNCHANGED <<escaped, argv, file, theargs, net, bbox, g, layout, new_layout,
                   out_stream, out_flushed, err_flushed, rc, status, n_size,
                   raw, calls,
                   raised>>

\* finally: err_stream.flush(); out_stream.flush(), then the return
Finally ==
    /\ pc = "finally"
    /\ err_flushed' = TRUE
    /\ out_flushed' = TRUE
    /\ rc' = ret
    /\ pc' = "returned"
    /\ UNCHANGED <<escaped, argv, file, theargs, net, bbox, g, layout, new_layout,
                   out_stream, err_stream, exc, ret, status, n_size, raw,
                   calls,
                   raised>>

Next ==
    \/ MainParseArguments
    \/ CheckIsFile
    \/ CheckEmptyFile
    \/ GetSizeOSError
    \/ CreateNiceCx
    \/ SelectBBox
    \/ ToIgraph
    \/ GLayout
    \/ Transform
    \/ BuildNewLayout
    \/ JsonDump
    \/ Except
    \/ Finally
    \/ MainReturn
    \/ MainExcept

Spec == Init /\ [][Next]_vars
\* ------------------------------------------------------------- properties
\* s holds t as a run of consecutive elements (Python: t in s)
Contains(s, t) ==
    \E i \in 0..(Len(s) - Len(t)) : SubSeq(s, i + 1, i + Len(t)) = t

\* a rectangle string read as its text says: the components between the
\* commas, blanks around them dropped
RECURSIVE CommaSplitFrom(_, _, _)
CommaSplitFrom(s, start, i) ==
    IF i > Len(s) THEN <<SubSeq(s, start, Len(s))>>
    ELSE IF s[i] = ","
         THEN <<SubSeq(s, start, i - 1)>> \o CommaSplitFrom(s, i + 1, i + 1)
         ELSE CommaSplitFrom(s, start, i + 1)
Components(s) ==
    LET c == CommaSplitFrom(s, 1, 1) IN [i \in 1..Len(c) |-> Strip(c[i])]
IsNumericRectangle(s) ==
    /\ Len(Components(s)) = 4
    /\ \A i \in 1..4 : IsFloatStr(Components(s)[i])
WrittenBox(s) ==
    [left   |-> FloatOf(Components(s)[1]), top    |-> FloatOf(Components(s)[2]),
     right  |-> FloatOf(Components(s)[3]), bottom |-> FloatOf(Components(s)[4])]

\* run_layout has just resolved the box of --fit_into
UserBoxResolved ==
    /\ pc \in {"to_networkx", "except"}
    /\ calls # <<>>
    /\ calls[Len(calls)] = "_get_bounding_box_from_user_str"
UserStr == theargs[1].fit_into[1]

\* C1: for every rectangle string "L,T,R,B" of four numeric literals
\* (negative and fractional ones included, blanks around the commas
\* allowed) the resolved box has exactly the coordinates (L, T, R, B).
\* Stated for the rectangles written with L <= R and T <= B, whose corners
\* BoundingBox leaves in place.
C1_BoxAsWritten ==
    (/\ UserBoxResolved
     /\ IsNumericRectangle(UserStr)
     /\ WrittenBox(UserStr).left <= WrittenBox(UserStr).right
     /\ WrittenBox(UserStr).top <= WrittenBox(UserStr).bottom)
        => (pc = "to_networkx" /\ bbox = Some(WrittenBox(UserStr)))

\* C2 as stated: a rectangle string that does not split into exactly four
\* tokens, or that has a non-numeric token, fails with an error whose
\* message contains the input string.
C2_ErrorNamesInput ==
    (/\ UserBoxResolved
     /\ \/ Len(re_split(UserStr)) # 4
        \/ \E i \in 1..Len(re_split(UserStr)) : ~IsFloatStr(re_split(UserStr)[i]))
        => (pc = "except" /\ exc # None /\ Contains(exc[1], UserStr))

\* C2 as the code has it: a string that re.split does not cut into exactly
\* four tokens fails with a message that contains the input string; one of
\* four tokens with a non-numeric token fails with BoundingBox's message
\* "invalid coordinate format, numbers expected", which does not name it.
C2_ErrorByKind ==
    UserBoxResolved =>
        /\ Len(re_split(UserStr)) # 4 =>
              /\ pc = "except" /\ exc # None
              /\ Contains(exc[1], UserStr)
        /\ (/\ Len(re_split(UserStr)) = 4
            /\ \E i \in 1..4 : ~IsFloatStr(re_split(UserStr)[i])) =>
              /\ pc = "except"
              /\ exc = Some(InvalidCoordinateMsg)
              /\ ~Contains(exc[1], UserStr)

C2_Witness ==
    /\ UserBoxResolved
    /\ Len(re_split(UserStr)) = 4
    /\ ~IsFloatStr(re_split(UserStr)[2])
    /\ exc = Some(InvalidCoordinateMsg)

\* C3: run_layout returns 3 when the input path names no file and 4 when
\* the file is empty; then nothing was parsed, resolved or laid out, one
\* plain message is on the error stream and nothing on the output stream.
C3_InputChecks ==
    rc # None =>
        /\ ~file.isfile =>
              /\ rc = Some(3)
              /\ err_stream = <<<<argv.input, " is not a file">>>>
        /\ (file.isfile /\ file.size = 0) =>
              /\ rc = Some(4)
              /\ err_stream = <<<<argv.input, " is an empty file">>>>
        /\ rc \in {Some(3), Some(4)} =>
              /\ ~file.isfile \/ file.size = 0
              /\ calls = <<>> /\ raised = <<>>
              /\ net = None /\ bbox = None /\ layout = None
              /\ Len(err_stream) = 1
              /\ out_stream = <<>>

C3_Witness ==
    /\ rc = Some(4)
    /\ file.isfile
    /\ err_stream = <<<<argv.input, " is an empty file">>>>

\* the derived box has just been resolved (neither option was given)
DerivedBoxResolved ==
    /\ pc = "to_networkx"
    /\ calls # <<>>
    /\ calls[Len(calls)] = "_get_node_size_from_cyvisual_properties"

\* the node size the derived box is built on: the estimator's, or 75.0
EstimatedSize ==
    IF n_size[1].val[1] = None THEN 75 * Scale ELSE n_size[1].val[1][1]

\* side = max(550.0, sqrt(x)), to the resolution of the model
IsBoxSide(side, x) ==
    /\ side >= 550 * Scale
    /\ side = 550 * Scale \/ side * side <= x
    /\ (side + 1) * (side + 1) > x

\* C4: with neither --scale nor --fit_into the box is (0, 0, side, side),
\* side = max(550.0, sqrt(size^2 * N)) for N nodes and the estimator's node
\* size, 75.0 when the estimator found none.
C4_DerivedBox ==
    DerivedBoxResolved =>
        /\ bbox # None
        /\ bbox[1].left = 0 /\ bbox[1].top = 0
        /\ bbox[1].right = bbox[1].bottom
        /\ IsBoxSide(bbox[1].right,
                     EstimatedSize * EstimatedSize * Len(net[1].nodes))

C4_Witness ==
    /\ DerivedBoxResolved
    /\ n_size[1].val[1] = None
    /\ bbox[1].right > 550 * Scale
    /\ bbox[1].right = bbox[1].bottom

\* the aspect of the input file and its nodes:default entries
FileAspect == file.cx[1].opaque[CY_VISUAL_PROPERTIES_ASPECT]
DefaultEntries ==
    {i \in 1..Len(FileAspect[1]) :
        FileAspect[1][i].properties_of = "nodes:default"}
DefaultProps ==
    FileAspect[1][CHOOSE i \in DefaultEntries :
                      \A j \in DefaultEntries : i <= j].properties
IsNumericProps(p) ==
    \A k \in {"NODE_WIDTH", "NODE_HEIGHT", "NODE_SIZE"} :
        k \in DOMAIN p /\ IsFloatStr(p[k])

\* C5: the estimator returns None when the aspect is absent or no entry is
\* of 'nodes:default'; otherwise it returns the largest of the width, the
\* height and the size of the (first) nodes:default entry, read as floats.
C5_NodeSize ==
    n_size # None =>
        IF FileAspect = None \/ DefaultEntries = {}
        THEN n_size[1] = Return(None)
        ELSE IsNumericProps(DefaultProps) =>
                /\ ~n_size[1].raised
                /\ n_size[1].val[1] # None
                /\ n_size[1].val[1][1] \in
                       {FloatOf(DefaultProps[k]) :
                           k \in {"NODE_WIDTH", "NODE_HEIGHT", "NODE_SIZE"}}
                /\ \A k \in {"NODE_WIDTH", "NODE_HEIGHT", "NODE_SIZE"} :
                       n_size[1].val[1][1] >= FloatOf(DefaultProps[k])

C5_Witness ==
    /\ n_size # None
    /\ FileAspect # None
    /\ Cardinality(DefaultEntries) = 2
    /\ n_size[1] = Return(Some(300 * Scale))
    /\ FloatOf(DefaultProps["NODE_SIZE"]) = 300 * Scale

\* C6: with --scale k no bounding box is computed, and every emitted
\* (x, y) is k times the raw coordinate of its vertex, y with its sign.
ScaleFactor == theargs[1].scale[1]
C6_ScaleMode ==
    (theargs # None /\ theargs[1].scale # None) =>
        /\ bbox = None
        /\ \A i \in 1..Len(calls) :
               calls[i] \notin {"_get_bounding_box_based_on_node_size",
                                "_get_bounding_box_from_user_str"}
        /\ new_layout # None =>
              /\ Len(new_layout[1]) = Len(raw[1])
              /\ \A i \in 1..Len(raw[1]) :
                    /\ new_layout[1][i].x * Scale = ScaleFactor * raw[1][i][1]
                    /\ new_layout[1][i].y * Scale = ScaleFactor * raw[1][i][2]
        /\ rc = Some(0) => out_stream = <<JsonArray(new_layout[1])>>

C6_Witness ==
    /\ theargs # None /\ theargs[1].scale # None
    /\ rc = Some(0)
    /\ ScaleFactor = 5
    /\ \E i \in 1..Len(raw[1]) :
          /\ raw[1][i][2] > 0
          /\ out_stream[1].items[i].y * 2 = raw[1][i][2]

\* C7: an exception raised while the graph is parsed, the box resolved,
\* the layout run or the result serialized is caught in run_layout: its
\* message goes to the error stream, run_layout returns 5, and main gets
\* that return value, not the exception.
C7_ExceptionsCaught ==
    /\ exc # None => (pc = "except" /\ rc = None)
    /\ (raised # <<>> /\ pc # "except") =>
          /\ exc = None
          /\ ret = Some(5)
          /\ err_stream = <<raised[1]>>
          /\ Len(raised) = 1
    /\ (raised # <<>> /\ rc # None) => rc = Some(5)
    /\ (raised # <<>> /\ status # None) =>
          status = Some([kind |-> "return", code |-> 5])

C7_Witness ==
    /\ status = Some([kind |-> "return", code |-> 5])
    /\ calls[Len(calls)] = "_get_bounding_box_from_user_str"
    /\ raised = <<CouldNotParseMsg(argv.fit_into[1])>>
    /\ err_stream = raised

\* C8: on success there is one record per node, in the order of the
\* layout, record i with the identifier of vertex i and the transformed
\* coordinates at index i; the output stream holds that one JSON array and
\* run_layout returns 0.
C8_OneRecordPerNode ==
    (rc = Some(0) \/ ret = Some(0)) =>
        /\ Len(out_stream) = 1
        /\ out_stream[1].json = "array"
        /\ Len(out_stream[1].items) = Len(file.cx[1].nodes)
        /\ Len(layout[1]) = Len(file.cx[1].nodes)
        /\ \A i \in 1..Len(file.cx[1].nodes) :
              /\ out_stream[1].items[i].node = file.cx[1].nodes[i]
              /\ out_stream[1].items[i].x = layout[1][i][1]
              /\ out_stream[1].items[i].y = layout[1][i][2]
        /\ rc # None => rc = Some(0)

C8_Witness ==
    /\ rc = Some(0)
    /\ Len(out_stream[1].items) = MaxNodes
    /\ out_stream[1].items[2].node = 180
    /\ layout[1][1] # layout[1][2]

\* C9: on every exit path of run_layout (return codes 0, 3, 4 and 5) the
\* output stream and the error stream are flushed before the status code
\* is returned.
C9_FlushedOnEveryExit ==
    rc # None => (err_flushed /\ out_flushed)

\* exactly one of the two transforms was called
TransformCalls == {i \in 1..Len(calls) : calls[i] \in {"scale", "fit_into"}}
BoxCalls ==
    {calls[i] : i \in 1..Len(calls)}
        \cap {"_get_bounding_box_based_on_node_size",
              "_get_bounding_box_from_user_str"}

\* C10: a command line with both --scale and --fit_into is rejected when
\* the arguments are parsed; for an accepted one run_layout applies exactly
\* one transform: the scale when --scale is set, the fit into the box of
\* --fit_into when that is set, the fit into the derived box otherwise.
C10_OneSizingMode ==
    /\ (argv.scale # None /\ argv.fit_into # None /\ pc # "main") =>
          /\ pc = "exit"
          /\ status = Some([kind |-> "SystemExit", code |-> 2])
          /\ theargs = None /\ calls = <<>>
    /\ theargs # None =>
          ~(theargs[1].scale # None /\ theargs[1].fit_into # None)
    /\ pc \in {"transform"} => TransformCalls = {}
    /\ (theargs # None /\ new_layout # None) =>
          /\ Cardinality(TransformCalls) = 1
          /\ IF theargs[1].scale # None
             THEN /\ calls[CHOOSE i \in TransformCalls : TRUE] = "scale"
                  /\ BoxCalls = {}
                  /\ layout[1] = layout_scale(raw[1], theargs[1].scale[1])
             ELSE /\ calls[CHOOSE i \in TransformCalls : TRUE] = "fit_into"
                  /\ BoxCalls =
                        IF theargs[1].fit_into # None
                        THEN {"_get_bounding_box_from_user_str"}
                        ELSE {"_get_bounding_box_based_on_node_size"}
                  /\ bbox # None
                  /\ layout[1] = layout_fit_into(raw[1], bbox[1])

C10_Witness ==
    /\ rc = Some(0)
    /\ theargs[1].fit_into # None
    /\ TransformCalls # {}
    /\ bbox = Some([left |-> -50, top |-> 0, right |-> 25, bottom |-> 25])
    /\ layout[1] # raw[1]

\* main's handler has written a trace to the error stream
TraceWritten ==
    \E i \in 1..Len(err_stream) :
        err_stream[i][1] = "Traceback (most recent call last):"

\* C11 as stated: a failure before run_layout is reached, such as an
\* argument parsing error, is caught by main, the full trace is written to
\* the error stream, and main returns 2.
C11_ParseErrorCaught ==
    (~ArgsAccepted(argv) /\ pc = "exit") =>
        /\ status = Some([kind |-> "return", code |-> 2])
        /\ TraceWritten

\* C11 as the code has it: an argument parsing error is raised before
\* main's try block, as SystemExit(2) after argparse has written its usage
\* and error message to the error stream: main does not catch it, writes no
\* trace and does not return, run_layout is not reached, and the exit
\* status is 2.  What main catches is an exception that leaves run_layout:
\* its message and trace go to the error stream and main returns 2.
C11_ParseErrorExits ==
    /\ (~ArgsAccepted(argv) /\ pc # "main") =>
          /\ pc = "exit"
          /\ status = Some([kind |-> "SystemExit", code |-> 2])
          /\ err_stream = <<ArgparseErrorMsg>>
          /\ ~TraceWritten
          /\ theargs = None /\ rc = None /\ calls = <<>> /\ escaped = None
    /\ (escaped # None /\ pc = "exit") =>
          /\ status = Some([kind |-> "return", code |-> 2])
          /\ TraceWritten
          /\ rc = None
    /\ TraceWritten => escaped # None

C11_Witness ==
    /\ pc = "exit"
    /\ argv.scale # None /\ argv.fit_into # None
    /\ status = Some([kind |-> "SystemExit", code |-> 2])
    /\ err_stream = <<ArgparseErrorMsg>>

====
